---- MODULE Spec2Model ----
(***************************************************************************)
(* A model of xhGen (src/src/main.rs): the derived radii of a crosshair    *)
(* configuration, the hex colour parser, and the batch SVG generator that  *)
(* drives the vector renderer over the colour pairs of a CSV file.         *)
(*                                                                         *)
(* Text is modelled as sequences of one-character strings.  An f64 is a    *)
(* record [k, v]: k = "fin" with v the value counted in halves (so that    *)
(* x / 2.0 of a whole number is exact, as it is in binary floating point), *)
(* or k = "nan", "pinf", "ninf".                                           *)
(***************************************************************************)
EXTENDS Integers, Sequences, FiniteSets, TLC

VARIABLES
    config,     \* the caller's CrosshairConfig (the template of a batch)
    radii,      \* the four derived radii of config, once computed
    raw,        \* the colour token handed to parse_color_spec
    parsed,     \* its result: Ok(ColorSpec) or Err
    reparsed,   \* the result of parsing parsed's canonical hex again
    csv,        \* the text of the colour-pair file
    disk,       \* the output directory: whether it exists, and its files
    pc,         \* where generate_batch_svgs stands
    pairs,      \* load_color_pairs' Vec<(ColorSpec, ColorSpec)>
    idx,        \* the batch loop's index into pairs (0-based)
    cfg,        \* generate_batch_svgs' working clone of config
    renders,    \* every (path, rendered config, document) passed to svg::save
    result,     \* what generate_batch_svgs returned
    user_csvs,  \* the user's CSV library directory, which seed_user_csvs fills
    spoke,      \* the arguments of one spoke: centre, direction, radii, widths
    outline,    \* spoke_outline_points' polygon for spoke
    spoke_path, \* bezier_spoke's path data for spoke
    svg_doc,    \* generate_svg(config)
    svg_again,  \* generate_svg(config), called a second time
    other,      \* a second configuration
    svg_other,  \* generate_svg(other)
    chain,      \* CrosshairApp.chain_canvas_and_radius
    profiles,   \* the profile directory: file name -> stored configuration
    profile_name,     \* CrosshairApp.profile_name, the text of the name field
    selected_profile, \* CrosshairApp.selected_profile
    saves,      \* every save_profile_to_disk call so far: name, config, outcome
    last_load   \* the last load_profile_from_disk call: its name and its result

spokeVars == <<spoke, outline, spoke_path>>
svgVars == <<svg_doc, svg_again, other, svg_other>>
appVars == <<chain, profiles, profile_name, selected_profile, saves, last_load>>

vars == <<config, radii, raw, parsed, reparsed, csv, disk, pc, pairs, idx,
          cfg, renders, result, user_csvs, spokeVars, svgVars, appVars>>

\* ---------------------------------------------------------------- bounds

\* Whole-number magnitudes -MaxMag..MaxMag are tried for every radius field.
MaxMag == 2
\* A token carries up to MaxHashes leading '#' and MaxPad blanks on each side.
MaxHashes == 2
MaxPad == 1
\* The colour-pair file has up to MaxLines lines, the header included.
MaxLines == 3

\* ------------------------------------------------------------------- f64

Fin(n) == [k |-> "fin", v |-> n]
FromInt(n) == Fin(2 * n)
NaN == [k |-> "nan", v |-> 0]
PInf == [k |-> "pinf", v |-> 0]
NInf == [k |-> "ninf", v |-> 0]

IsFin(a) == a.k = "fin"

\* IEEE-754 subtraction.
FSub(a, b) ==
    CASE a.k = "nan" \/ b.k = "nan" -> NaN
      [] a.k = "fin" /\ b.k = "fin" -> Fin(a.v - b.v)
      [] a.k = "pinf" -> IF b.k = "pinf" THEN NaN ELSE PInf
      [] a.k = "ninf" -> IF b.k = "ninf" THEN NaN ELSE NInf
      [] OTHER -> IF b.k = "pinf" THEN NInf ELSE PInf

\* x / 2.0 (x a whole number or an infinity or NaN).
FHalf(a) == IF a.k = "fin" THEN Fin(a.v \div 2) ELSE a

\* a > b as IEEE-754 compares: false when either is NaN.
FGt(a, b) ==
    CASE a.k = "nan" \/ b.k = "nan" -> FALSE
      [] a.k = "fin" /\ b.k = "fin" -> a.v > b.v
      [] a.k = "pinf" -> b.k # "pinf"
      [] a.k = "ninf" -> FALSE
      [] OTHER -> b.k = "ninf"

\* f64::max: the larger of the two; if one is NaN, the other.
FMax(a, b) ==
    CASE a.k = "nan" -> b
      [] b.k = "nan" -> a
      [] OTHER -> IF FGt(b, a) THEN b ELSE a

Zero == Fin(0)

\* ------------------------------------------------------- CrosshairConfig

DefaultConfig ==
    [size |-> 256,
     ring_outer_radius |-> FromInt(118),
     ring_thickness |-> FromInt(20),
     rim_color |-> <<255, 255, 255, FromInt(1)>>,
     arm_color |-> <<0, 0, 0, FromInt(1)>>,
     gap_from_ring |-> FromInt(10),
     center_gap_radius |-> FromInt(2),
     spoke_base_width |-> FromInt(12),
     spoke_tip_width |-> Fin(3),
     angles |-> <<45, 135, 225, 315>>,
     blur_radius |-> FromInt(1),
     glow_radius |-> FromInt(2)]

ring_draw_radius_unclamped(c) == FSub(c.ring_outer_radius, FHalf(c.ring_thickness))
ring_draw_radius(c) ==
    FMax(FSub(c.ring_outer_radius, FHalf(c.ring_thickness)), Zero)

ring_inner_radius(c) == FMax(FSub(c.ring_outer_radius, c.ring_thickness), Zero)

spoke_base_radius_from_raw_inner(c) ==
    FMax(FSub(FSub(c.ring_outer_radius, c.ring_thickness), c.gap_from_ring), Zero)
spoke_base_radius(c) == FMax(FSub(ring_inner_radius(c), c.gap_from_ring), Zero)

spoke_tip_radius(c) == FMax(c.center_gap_radius, Zero)

\* ------------------------------------------------------------------ text

Ok(v) == [ok |-> TRUE, val |-> v]
Err(e) == [ok |-> FALSE, err |-> e]
None == [none |-> TRUE]

\* io::Error::new(io::ErrorKind::InvalidData, format!(fmt, args...))
InvalidData(fmt, args) == [kind |-> "InvalidData", fmt |-> fmt, args |-> args]

\* char::is_whitespace, on the characters the model uses
WhiteSpace == {" ", "\t", "\n", "\r"}

Digits == <<"0", "1", "2", "3", "4", "5", "6", "7", "8", "9">>
LowerLetters == <<"a", "b", "c", "d", "e", "f", "g", "h", "i", "j", "k", "l", "m",
                  "n", "o", "p", "q", "r", "s", "t", "u", "v", "w", "x", "y", "z">>
UpperLetters == <<"A", "B", "C", "D", "E", "F", "G", "H", "I", "J", "K", "L", "M",
                  "N", "O", "P", "Q", "R", "S", "T", "U", "V", "W", "X", "Y", "Z">>

Range(s) == {s[i] : i \in DOMAIN s}
IndexOf(c, s) == CHOOSE i \in DOMAIN s : s[i] = c

\* char::is_ascii_hexdigit: 0-9, a-f, A-F
is_ascii_hexdigit(c) ==
    \/ c \in Range(Digits)
    \/ c \in Range(SubSeq(LowerLetters, 1, 6))
    \/ c \in Range(SubSeq(UpperLetters, 1, 6))

\* char::to_ascii_uppercase, and str::to_ascii_uppercase
char_to_ascii_uppercase(c) ==
    IF c \in Range(LowerLetters) THEN UpperLetters[IndexOf(c, LowerLetters)] ELSE c
to_ascii_uppercase(s) == [i \in DOMAIN s |-> char_to_ascii_uppercase(s[i])]

\* str::trim_start, str::trim_end, str::trim
RECURSIVE trim_start(_)
trim_start(s) ==
    IF s # <<>> /\ Head(s) \in WhiteSpace THEN trim_start(Tail(s)) ELSE s
RECURSIVE trim_end(_)
trim_end(s) ==
    IF s # <<>> /\ s[Len(s)] \in WhiteSpace
    THEN trim_end(SubSeq(s, 1, Len(s) - 1))
    ELSE s
trim(s) == trim_end(trim_start(s))

\* str::trim_start_matches(c): every leading c is removed, not only the first
RECURSIVE trim_start_matches(_, _)
trim_start_matches(s, c) ==
    IF s # <<>> /\ Head(s) = c THEN trim_start_matches(Tail(s), c) ELSE s

\* -------------------------------------------------------- colour parsing

\* The length normalize_hex requires of a token (main.rs:658).
HexLen == 6

normalize_hex_keep_case(r) ==
    LET trimmed == trim_start_matches(trim(r), "#")
    IN  IF Len(trimmed) # HexLen \/ ~(\A i \in DOMAIN trimmed : is_ascii_hexdigit(trimmed[i]))
        THEN Err(InvalidData("Invalid hex color: {}", <<r>>))
        ELSE Ok(trimmed)
normalize_hex(r) ==
    LET trimmed == trim_start_matches(trim(r), "#")
    IN  IF Len(trimmed) # HexLen \/ ~(\A i \in DOMAIN trimmed : is_ascii_hexdigit(trimmed[i]))
        THEN Err(InvalidData("Invalid hex color: {}", <<r>>))
        ELSE Ok(to_ascii_uppercase(trimmed))

\* char::to_digit(16)
to_digit16(c) ==
    CASE c \in Range(Digits) -> IndexOf(c, Digits) - 1
      [] c \in Range(SubSeq(LowerLetters, 1, 6)) -> IndexOf(c, LowerLetters) + 9
      [] c \in Range(SubSeq(UpperLetters, 1, 6)) -> IndexOf(c, UpperLetters) + 9
      [] OTHER -> -1

\* u8::from_str_radix(s, 16) of a two-character slice: an optional '+', then
\* hex digits only; two digits never overflow a u8.
u8_from_str_radix16(s) ==
    LET ds == IF s[1] = "+" THEN Tail(s) ELSE s
    IN  IF ds = <<>> \/ \E i \in DOMAIN ds : to_digit16(ds[i]) < 0
        THEN Err("ParseIntError")
        ELSE Ok(IF Len(ds) = 1
                THEN to_digit16(ds[1])
                ELSE 16 * to_digit16(ds[1]) + to_digit16(ds[2]))

hex_to_rgb_green_blue_swapped(hex) ==
    LET r == u8_from_str_radix16(SubSeq(hex, 1, 2))
        g == u8_from_str_radix16(SubSeq(hex, 5, 6))
        b == u8_from_str_radix16(SubSeq(hex, 3, 4))
    IN  IF ~r.ok \/ ~g.ok \/ ~b.ok
        THEN Err(InvalidData("Invalid red in {}: {}", <<hex, "ParseIntError">>))
        ELSE Ok(<<r.val, g.val, b.val>>)
hex_to_rgb(hex) ==
    LET r == u8_from_str_radix16(SubSeq(hex, 1, 2))
        g == u8_from_str_radix16(SubSeq(hex, 3, 4))
        b == u8_from_str_radix16(SubSeq(hex, 5, 6))
    IN  IF ~r.ok THEN Err(InvalidData("Invalid red in {}: {}", <<hex, r.err>>))
        ELSE IF ~g.ok THEN Err(InvalidData("Invalid green in {}: {}", <<hex, g.err>>))
        ELSE IF ~b.ok THEN Err(InvalidData("Invalid blue in {}: {}", <<hex, b.err>>))
        ELSE Ok(<<r.val, g.val, b.val>>)

parse_color_spec(r) ==
    LET hex == normalize_hex(r)
    IN  IF ~hex.ok THEN hex
        ELSE LET rgb == hex_to_rgb(hex.val)
             IN  IF ~rgb.ok THEN rgb
                 ELSE Ok([rgb |-> rgb.val, hex |-> hex.val])

\* ----------------------------------------------------------- vector renderer

\* format!("rgba({},{},{},{})", c.0, c.1, c.2, c.3)
rgba(c) == [fmt |-> "rgba({},{},{},{})", args |-> c]

\* The path element of one spoke, as the arguments bezier_spoke builds it from.
bezier_spoke(cx, cy, angle_deg, tip_r, base_r, base_width, tip_width) ==
    [cx |-> cx, cy |-> cy, angle_deg |-> angle_deg, tip_r |-> tip_r,
     base_r |-> base_r, base_width |-> base_width, tip_width |-> tip_width]

\* config.size as f64 / 2.0
half_size(c) == Fin(c.size)

\* The ring with a blur filter taken from the configuration
circle_blurred(c, cx, cy) ==
    [tag |-> "circle", cx |-> cx, cy |-> cy, r |-> ring_draw_radius(c),
     stroke_width |-> c.ring_thickness, stroke |-> rgba(c.rim_color),
     fill |-> "none", filter |-> <<c.blur_radius, c.glow_radius>>]

\* Circle::new().set("cx", cx) ... .set("fill", "none")
circle(c, cx, cy) ==
    [tag |-> "circle", cx |-> cx, cy |-> cy, r |-> ring_draw_radius(c),
     stroke_width |-> c.ring_thickness, stroke |-> rgba(c.rim_color),
     fill |-> "none"]

\* The document with the ring added before the arms
document_ring_first(size, arms, ring) ==
    [tag |-> "svg", width |-> size, height |-> size,
     viewBox |-> [fmt |-> "0 0 {} {}", args |-> <<size, size>>],
     children |-> <<ring, arms>>]

\* Document::new().set("width", size) ... .add(arms).add(ring): an element
\* holds its children in the order they were added.
document(size, arms, ring) ==
    [tag |-> "svg", width |-> size, height |-> size,
     viewBox |-> [fmt |-> "0 0 {} {}", args |-> <<size, size>>],
     children |-> <<arms, ring>>]

generate_svg(c) ==
    LET cx == half_size(c)
        cy == cx
        base_r == spoke_base_radius(c)
        tip_r == spoke_tip_radius(c)
        arms == [tag |-> "g",
                 children |->
                    [i \in DOMAIN c.angles |->
                       [tag |-> "path",
                        d |-> bezier_spoke(cx, cy, c.angles[i], tip_r, base_r,
                                           c.spoke_base_width, c.spoke_tip_width),
                        fill |-> rgba(c.arm_color)]]]
        ring == circle(c, cx, cy)
    IN  document(c.size, arms, ring)

\* ------------------------------------------------------------- colour pairs

\* str::lines: split at "\n"; a "\r" right before the "\n" goes with it; a last
\* line without "\n" is kept as it is, and an empty remainder is no line.
\* split_lines(text, i, start, acc): text is read from i on, the line being read
\* began at start, acc holds the lines before it.
RECURSIVE split_lines(_, _, _, _)
split_lines(text, i, start, acc) ==
    IF i > Len(text)
    THEN IF start > Len(text) THEN acc ELSE Append(acc, SubSeq(text, start, Len(text)))
    ELSE IF text[i] = "\n"
         THEN split_lines(text, i + 1, i + 1,
                          Append(acc, IF i > start /\ text[i - 1] = "\r"
                                      THEN SubSeq(text, start, i - 2)
                                      ELSE SubSeq(text, start, i - 1)))
         ELSE split_lines(text, i + 1, start, acc)
lines(text) == split_lines(text, 1, 1, <<>>)

\* str::split_once(','): around the first comma, None without one
split_once(line) ==
    IF "," \notin Range(line)
    THEN None
    ELSE LET i == CHOOSE j \in DOMAIN line :
                    line[j] = "," /\ \A k \in 1..(j - 1) : line[k] # ","
         IN  Ok(<<SubSeq(line, 1, i - 1), SubSeq(line, i + 1, Len(line))>>)

\* One pass of load_color_pairs' loop over line ls[n] (enumerate's idx = n - 1).
parse_row(ls, n) ==
    LET halves == split_once(ls[n])
    IN  IF halves = None
        THEN Err(InvalidData("Invalid row {}: {}", <<n, ls[n]>>))
        ELSE LET outer == parse_color_spec(halves.val[1])
             IN  IF ~outer.ok THEN outer
                 ELSE LET inner == parse_color_spec(halves.val[2])
                      IN  IF ~inner.ok THEN inner
                          ELSE Ok([rim |-> outer.val, arms |-> inner.val])

RECURSIVE load_rows_keep_header(_, _, _)
load_rows_keep_header(ls, n, acc) ==
    IF n > Len(ls) THEN Ok(acc)
    ELSE IF trim(ls[n]) = <<>> THEN load_rows_keep_header(ls, n + 1, acc)
    ELSE LET row == parse_row(ls, n)
         IN  IF ~row.ok THEN row
             ELSE load_rows_keep_header(ls, n + 1, Append(acc, row.val))

RECURSIVE load_rows_skip_bad(_, _, _)
load_rows_skip_bad(ls, n, acc) ==
    IF n > Len(ls) THEN Ok(acc)
    ELSE IF n = 1 \/ trim(ls[n]) = <<>> THEN load_rows_skip_bad(ls, n + 1, acc)
    ELSE LET row == parse_row(ls, n)
         IN  IF ~row.ok THEN load_rows_skip_bad(ls, n + 1, acc)
             ELSE load_rows_skip_bad(ls, n + 1, Append(acc, row.val))

\* The loop of load_color_pairs from line n on, acc the pairs pushed so far.
RECURSIVE load_rows(_, _, _)
load_rows(ls, n, acc) ==
    IF n > Len(ls) THEN Ok(acc)
    ELSE IF n = 1 \/ trim(ls[n]) = <<>> THEN load_rows(ls, n + 1, acc)
    ELSE LET row == parse_row(ls, n)
         IN  IF ~row.ok THEN row
             ELSE load_rows(ls, n + 1, Append(acc, row.val))

\* load_color_pairs on the text that fs::read_to_string returned
load_color_pairs_keep_header(text) == load_rows_keep_header(lines(text), 1, <<>>)
load_color_pairs_skip_bad(text) == load_rows_skip_bad(lines(text), 1, <<>>)
load_color_pairs(text) == load_rows(lines(text), 1, <<>>)

\* ------------------------------------------------------------- CSV library

\* The user's CSV library is a record: default_path, whether the colour-pair
\* file asked for is default_csv_path(); sources, the names of the CSV files of
\* the system and repository directories; exists, whether the directory is
\* there; files, the names of the files in it.

\* seed_user_csvs(): the directory is created and every source file that is
\* not in it yet is copied into it.
seed_user_csvs(lib) ==
    [lib EXCEPT !.exists = TRUE, !.files = @ \cup lib.sources]

\* The seeding done whatever the path of the colour-pair file
seed_whatever_the_path(lib) == seed_user_csvs(lib)

\* if Path::new(path) == default_csv_path() { let _ = seed_user_csvs(); }
seed_if_default_path(lib) ==
    IF lib.default_path THEN seed_user_csvs(lib) ELSE lib

\* ------------------------------------------------------------ batch output

\* format!("xhMan_256px-rim-{}_arms-{}.svg", rim.hex, arms.hex)
batch_filename(rim, arms) ==
    <<"x", "h", "M", "a", "n", "_", "2", "5", "6", "p", "x", "-", "r", "i", "m", "-">> \o rim.hex \o <<"_", "a", "r", "m", "s", "-">> \o arms.hex \o <<".", "s", "v", "g">>

\* cfg.rim_color = (rim.rgb.., 1.0); cfg.arm_color = (arms.rgb.., 1.0)
with_pair_colors_keep_alpha(c, rim, arms) ==
    [c EXCEPT !.rim_color = <<rim.rgb[1], rim.rgb[2], rim.rgb[3], c.rim_color[4]>>,
              !.arm_color = <<arms.rgb[1], arms.rgb[2], arms.rgb[3], c.arm_color[4]>>]
with_pair_colors(c, rim, arms) ==
    [c EXCEPT !.rim_color = <<rim.rgb[1], rim.rgb[2], rim.rgb[3], FromInt(1)>>,
              !.arm_color = <<arms.rgb[1], arms.rgb[2], arms.rgb[3], FromInt(1)>>]

\* svg::save(path, doc): the file is created or replaced
save_keep_existing(files, path, doc) ==
    IF path \in DOMAIN files THEN files ELSE (path :> doc) @@ files
save(files, path, doc) == (path :> doc) @@ files

IoError(op) == [kind |-> "Io", op |-> op]

\* ---------------------------------------------------------------- profiles

Some(v) == [some |-> v]

\* char::is_ascii_alphanumeric
is_ascii_alphanumeric(c) ==
    c \in Range(Digits) \cup Range(LowerLetters) \cup Range(UpperLetters)

\* sanitize_profile_name: the name is trimmed; an empty rest is no name; every
\* character that is not an ASCII letter, a digit, '-' or '_' becomes '_'.
sanitize_profile_name(name) ==
    LET trimmed == trim(name)
        cleaned == [i \in DOMAIN trimmed |->
                      IF is_ascii_alphanumeric(trimmed[i]) \/ trimmed[i] \in {"-", "_"}
                      THEN trimmed[i]
                      ELSE "_"]
    IN  IF trimmed = <<>> THEN None
        ELSE IF cleaned = <<>> THEN None
        ELSE Some(cleaned)

\* profile_path: the file of a name in the profile directory, {safe}.json
profile_path(name) ==
    LET safe == sanitize_profile_name(name)
    IN  IF safe = None
        THEN Err("Enter a profile name.")
        ELSE Ok(safe.some \o <<".", "j", "s", "o", "n">>)

\* An f64 or f32 as serde_json writes it: a number, or null if it is not finite.
JsonNull == [k |-> "null", v |-> 0]
json_number(a) == IF IsFin(a) THEN a ELSE JsonNull

\* What a file holds when the write that made it did not finish.
Truncated == [truncated |-> TRUE]

json_color(c) == <<c[1], c[2], c[3], json_number(c[4])>>

\* to_json that leaves blur_radius out and writes 0.0 in its place
to_json_without_blur(c) ==
    [size |-> c.size,
     ring_outer_radius |-> json_number(c.ring_outer_radius),
     ring_thickness |-> json_number(c.ring_thickness),
     rim_color |-> json_color(c.rim_color),
     arm_color |-> json_color(c.arm_color),
     gap_from_ring |-> json_number(c.gap_from_ring),
     center_gap_radius |-> json_number(c.center_gap_radius),
     spoke_base_width |-> json_number(c.spoke_base_width),
     spoke_tip_width |-> json_number(c.spoke_tip_width),
     angles |-> c.angles,
     blur_radius |-> Zero,
     glow_radius |-> json_number(c.glow_radius)]

\* serde_json::to_writer_pretty(file, config): the derived Serialize writes an
\* object with one member per field of CrosshairConfig.
to_json(c) ==
    [size |-> c.size,
     ring_outer_radius |-> json_number(c.ring_outer_radius),
     ring_thickness |-> json_number(c.ring_thickness),
     rim_color |-> json_color(c.rim_color),
     arm_color |-> json_color(c.arm_color),
     gap_from_ring |-> json_number(c.gap_from_ring),
     center_gap_radius |-> json_number(c.center_gap_radius),
     spoke_base_width |-> json_number(c.spoke_base_width),
     spoke_tip_width |-> json_number(c.spoke_tip_width),
     angles |-> c.angles,
     blur_radius |-> json_number(c.blur_radius),
     glow_radius |-> json_number(c.glow_radius)]

\* serde_json::from_str::<CrosshairConfig>(data): the text must be a whole
\* object whose members have the fields' types (size an unsigned integer, the
\* colour bytes 0..255, no null where a number is due); nothing else is asked
\* of the values.
from_str(data) ==
    IF "size" \notin DOMAIN data
    THEN Err("Parse failed: {}")
    ELSE IF \/ data.size < 0
            \/ \E x \in {data.ring_outer_radius, data.ring_thickness,
                          data.gap_from_ring, data.center_gap_radius,
                          data.spoke_base_width, data.spoke_tip_width,
                          data.blur_radius, data.glow_radius,
                          data.rim_color[4], data.arm_color[4]} : x = JsonNull
            \/ \E i \in 1..3 : data.rim_color[i] \notin 0..255
            \/ \E i \in 1..3 : data.arm_color[i] \notin 0..255
    THEN Err("Parse failed: {}")
    ELSE Ok(data)

\* save_profile_to_disk(config, name) on the profile directory dir: the result,
\* and the directory afterwards.
save_profile_to_disk(dir, c, name) ==
    LET p == profile_path(name)
    IN  IF ~p.ok
        THEN [result |-> Err(p.err), dir |-> dir]
        ELSE [result |-> Ok(p.val), dir |-> save(dir, p.val, to_json(c))]

\* load_profile_from_disk(name) on the profile directory dir
load_profile_from_disk(dir, name) ==
    LET p == profile_path(name)
    IN  IF ~p.ok THEN Err(p.err)
        ELSE IF p.val \notin DOMAIN dir THEN Err("Read failed: {}")
        ELSE from_str(dir[p.val])

\* ------------------------------------------------------------ CrosshairApp

MIN_CANVAS_SIZE == 64
MAX_CANVAS_SIZE == 8192
MAX_RING_OUTER_RADIUS == FromInt(4192)

\* canvas_border_radius(size): size as f64 / 2.0
canvas_border_radius(size) == Fin(size)

\* f64::clamp(self, min, max): NaN stays NaN
f64_clamp(a, min, max) ==
    IF FGt(min, a) THEN min ELSE IF FGt(a, max) THEN max ELSE a

\* ((r * 2.0).round() as u32).clamp(MIN_CANVAS_SIZE, MAX_CANVAS_SIZE): twice a
\* count of halves is whole; the cast sends NaN and negative values to 0 and
\* values above u32::MAX to u32::MAX, and the clamp brings both into bounds.
chained_size(r) ==
    CASE r.k \in {"nan", "ninf"} -> MIN_CANVAS_SIZE
      [] r.k = "pinf" -> MAX_CANVAS_SIZE
      [] OTHER -> IF r.v < MIN_CANVAS_SIZE THEN MIN_CANVAS_SIZE
                  ELSE IF r.v > MAX_CANVAS_SIZE THEN MAX_CANVAS_SIZE
                  ELSE r.v

\* path.file_stem(): the file name without ".json"
file_stem(p) == SubSeq(p, 1, Len(p) - 5)

\* list_profiles(): the stems of the files of the profile directory
list_profiles(dir) == {file_stem(p) : p \in DOMAIN dir}

\* load_profile's choice of a name: the name field if it is not blank, else
\* the selected profile
preferred_profile(name_field, selected) ==
    IF trim(name_field) # <<>> THEN Some(trim(name_field)) ELSE selected

\* ---------------------------------------------------------- spoke geometry

\* The coordinates and lengths of a spoke are f64 values; here they are exact
\* numbers counted in steps of 1/Unit.  Unit has one factor for every division
\* the spoke builders make of a whole or half input, so that each quotient is
\* again a whole number of steps: 2 (inputs in halves), 2 (width / 2.0),
\* 100 (tip_width of 0.01; half * 0.18), 5 (the components of a direction),
\* 2 (the mean of two anchors), 36 (t * t with t in sixths).
Unit == 2 * 2 * 100 * 5 * 2 * 36

\* A factor is a ratio <<p, q>>: the literals 0.25, 0.6, 0.9, 0.18, the parameter
\* t = i / steps of a curve, and the cosine and sine of the spoke's angle.
\* v * f, for a value v and a factor f
Times(v, f) ==
    IF (v * f[1]) % f[2] = 0 THEN (v * f[1]) \div f[2] ELSE "inexact"

\* -f
Minus(f) == <<0 - f[1], f[2]>>

\* v / 2.0
Halved(v) == Times(v, <<1, 2>>)

\* (base_r - tip_r).abs()
Abs(v) == IF v < 0 THEN 0 - v ELSE v

\* (cx + r * ux, cy + r * uy)
radial_point(cx, cy, r, ux, uy) == <<cx + Times(r, ux), cy + Times(r, uy)>>

\* (x + px * half, y + py * half)
right_of(p, px, py, half) == <<p[1] + Times(half, px), p[2] + Times(half, py)>>

\* (x - px * half, y - py * half)
left_of(p, px, py, half) == <<p[1] - Times(half, px), p[2] - Times(half, py)>>

\* ((a_x + b_x) / 2.0, (a_y + b_y) / 2.0)
mean_point(a, b) == <<Halved(a[1] + b[1]), Halved(a[2] + b[2])>>

\* tip_width <= 0.0
is_razor_only_at_zero(tip_width) == tip_width <= 0

\* tip_width <= 0.01
is_razor(tip_width) == tip_width <= Unit \div 100

\* quad_sample with start and end taken for each other
quad_sample_backwards(start, ctrl, end, i, steps) ==
    LET omt_omt == <<(steps - i) * (steps - i), steps * steps>>
        two_omt_t == <<2 * (steps - i) * i, steps * steps>>
        t_t == <<i * i, steps * steps>>
    IN  <<Times(end[1], omt_omt) + Times(ctrl[1], two_omt_t) + Times(start[1], t_t),
          Times(end[2], omt_omt) + Times(ctrl[2], two_omt_t) + Times(start[2], t_t)>>

\* The point of the curve from start by ctrl to end at t = i / steps:
\* omt * omt * start + 2.0 * omt * t * ctrl + t * t * end, with omt = 1.0 - t.
quad_sample(start, ctrl, end, i, steps) ==
    LET omt_omt == <<(steps - i) * (steps - i), steps * steps>>
        two_omt_t == <<2 * (steps - i) * i, steps * steps>>
        t_t == <<i * i, steps * steps>>
    IN  <<Times(start[1], omt_omt) + Times(ctrl[1], two_omt_t) + Times(end[1], t_t),
          Times(start[2], omt_omt) + Times(ctrl[2], two_omt_t) + Times(end[2], t_t)>>

add_quad_samples(points, ctrl, end, steps) ==
    IF points = <<>>
    THEN points
    ELSE points \o [i \in 1..steps |->
                      quad_sample(points[Len(points)], ctrl, end, i, steps)]

\* spoke_outline_points, the preview's polygon.  The angle enters only through
\* its cosine ux and sine uy (lines 468-470), which are given here in its place.
spoke_outline_points(cx, cy, ux, uy, tip_r, base_r, base_width, tip_width) ==
    LET px == Minus(uy)
        py == ux
        tip == radial_point(cx, cy, tip_r, ux, uy)
        base == radial_point(cx, cy, base_r, ux, uy)
        base_half == Halved(base_width)
        tip_half == Halved(tip_width)
        bl == left_of(base, px, py, base_half)
        br == right_of(base, px, py, base_half)
    IN  IF is_razor(tip_width)
        THEN LET dist == Abs(base_r - tip_r)
                 shoulder_r == base_r - Times(dist, <<1, 4>>)
                 mid_r == base_r - Times(dist, <<3, 5>>)
                 pinch_r == base_r - Times(dist, <<9, 10>>)
                 shoulder_half == Times(base_half, <<9, 10>>)
                 mid_half == Times(base_half, <<3, 5>>)
                 pinch_half == Times(base_half, <<9, 50>>)
                 shoulder == radial_point(cx, cy, shoulder_r, ux, uy)
                 mid == radial_point(cx, cy, mid_r, ux, uy)
                 pinch == radial_point(cx, cy, pinch_r, ux, uy)
                 sr == right_of(shoulder, px, py, shoulder_half)
                 sl == left_of(shoulder, px, py, shoulder_half)
                 mr == right_of(mid, px, py, mid_half)
                 ml == left_of(mid, px, py, mid_half)
                 pr == right_of(pinch, px, py, pinch_half)
                 pl == left_of(pinch, px, py, pinch_half)
                 pts0 == <<bl, br, sr>>
                 pts1 == add_quad_samples(pts0, mean_point(sr, mr), mr, 6)
                 pts2 == add_quad_samples(pts1, mean_point(mr, pr), pr, 6)
                 pts3 == add_quad_samples(pts2, mean_point(pr, tip), tip, 6)
                 pts4 == add_quad_samples(pts3, mean_point(pl, tip), pl, 6)
                 pts5 == add_quad_samples(pts4, mean_point(ml, pl), ml, 6)
                 pts6 == add_quad_samples(pts5, mean_point(sl, ml), sl, 6)
             IN  Append(pts6, bl)
        ELSE LET tl == left_of(tip, px, py, tip_half)
                 tr == right_of(tip, px, py, tip_half)
                 ctrl_br == mean_point(br, tr)
                 ctrl_bl == mean_point(bl, tl)
                 pts0 == <<bl, br>>
                 pts1 == add_quad_samples(pts0, ctrl_br, tr, 6)
                 pts2 == Append(pts1, tl)
             IN  add_quad_samples(pts2, ctrl_bl, bl, 6)

\* The commands of svg::node::element::path::Data
move_to(p) == <<"M", p>>
line_to(p) == <<"L", p>>
\* quadratic_curve_to given the end point first
quadratic_curve_to_end_first(ctrl, end) == <<"Q", end, ctrl>>
quadratic_curve_to(ctrl, end) == <<"Q", ctrl, end>>
close == <<"Z">>

\* bezier_spoke's path data (lines 98-174), with ux and uy given as above.
bezier_spoke_data(cx, cy, ux, uy, tip_r, base_r, base_width, tip_width) ==
    LET px == Minus(uy)
        py == ux
        tip == radial_point(cx, cy, tip_r, ux, uy)
        base == radial_point(cx, cy, base_r, ux, uy)
        base_half == Halved(base_width)
        tip_half == Halved(tip_width)
        bl == left_of(base, px, py, base_half)
        br == right_of(base, px, py, base_half)
    IN  IF is_razor(tip_width)
        THEN LET dist == Abs(base_r - tip_r)
                 shoulder_r == base_r - Times(dist, <<1, 4>>)
                 mid_r == base_r - Times(dist, <<3, 5>>)
                 pinch_r == base_r - Times(dist, <<9, 10>>)
                 shoulder_half == Times(base_half, <<9, 10>>)
                 mid_half == Times(base_half, <<3, 5>>)
                 pinch_half == Times(base_half, <<9, 50>>)
                 shoulder == radial_point(cx, cy, shoulder_r, ux, uy)
                 mid == radial_point(cx, cy, mid_r, ux, uy)
                 pinch == radial_point(cx, cy, pinch_r, ux, uy)
                 sr == right_of(shoulder, px, py, shoulder_half)
                 sl == left_of(shoulder, px, py, shoulder_half)
                 mr == right_of(mid, px, py, mid_half)
                 ml == left_of(mid, px, py, mid_half)
                 pr == right_of(pinch, px, py, pinch_half)
                 pl == left_of(pinch, px, py, pinch_half)
             IN  << move_to(bl),
                    line_to(br),
                    line_to(sr),
                    quadratic_curve_to(mean_point(sr, mr), mr),
                    quadratic_curve_to(mean_point(mr, pr), pr),
                    quadratic_curve_to(mean_point(pr, tip), tip),
                    quadratic_curve_to(mean_point(pl, tip), pl),
                    quadratic_curve_to(mean_point(ml, pl), ml),
                    quadratic_curve_to(mean_point(sl, ml), sl),
                    line_to(bl),
                    close >>
        ELSE LET tl == left_of(tip, px, py, tip_half)
                 tr == right_of(tip, px, py, tip_half)
                 ctrl_br == mean_point(br, tr)
                 ctrl_bl == mean_point(bl, tl)
             IN  << move_to(bl),
                    line_to(br),
                    quadratic_curve_to(ctrl_br, tr),
                    line_to(tl),
                    quadratic_curve_to(ctrl_bl, bl),
                    close >>

\* ------------------------------------------------------------------ inputs

\* The f64 values tried for the radius fields: small whole numbers of either
\* sign, the values of the default configuration, and the non-finite values.
F64Samples ==
    {FromInt(n) : n \in (-MaxMag)..MaxMag}
        \cup {FromInt(10), FromInt(20), FromInt(118)}
        \cup {NaN, PInf, NInf}

RECURSIVE Repeat(_, _)
Repeat(c, n) == IF n = 0 THEN <<>> ELSE <<c>> \o Repeat(c, n - 1)

\* Token bodies: the strings of n characters over a digit, a lower-case and an
\* upper-case hex letter, and a non-hex letter; n is HexLen - 1 .. HexLen + 1.
BodyChars == {"0", "a", "A", "g"}
Bodies(n) == [1..n -> BodyChars]

\* The examples of hex normalization the specification gives.
ExampleTokens == {<<"#", "f", "f", "A", "A", "0", "0">>, <<"f", "f", "a", "a", "0", "0">>, <<"F", "F", "A", "A", "0", "0">>}

\* A template other than the default: another size, translucent colours.
CustomConfig ==
    [DefaultConfig EXCEPT !.size = 512,
                          !.rim_color = <<10, 20, 30, Fin(1)>>,
                          !.arm_color = <<40, 50, 60, Fin(0)>>,
                          !.angles = <<0, 90, 90>>,
                          !.spoke_tip_width = Fin(0),
                          !.blur_radius = FromInt(3)]
Templates == {DefaultConfig, CustomConfig}

\* The lines a colour-pair file is made of.
HeaderLine == <<"o", "u", "t", "e", "r", ",", "i", "n", "n", "e", "r">>
PairA == <<"F", "F", "0", "0", "0", "0", ",", "0", "0", "F", "F", "0", "0">>
PairAVariant == <<"#", "f", "f", "0", "0", "0", "0", ",", "0", "0", "f", "f", "0", "0">>
PairB == <<"0", "0", "0", "0", "F", "F", ",", "F", "F", "F", "F", "F", "F">>
NoCommaLine == <<"F", "F", "0", "0", "0", "0">>
BadOuterLine == <<"Z", "Z", "Z", "Z", "Z", "Z", ",", "0", "0", "F", "F", "0", "0">>
BadInnerLine == <<"0", "0", "F", "F", "0", "0", ",", "1", "2", "3", "4", "5">>
SampleLines ==
    {HeaderLine, <<>>, <<" ">>, PairA, PairAVariant, PairB, NoCommaLine,
     BadOuterLine, BadInnerLine}

\* The text of a file of these lines: each followed by eol, the last one only
\* if the file ends with a line terminator.
RECURSIVE JoinLines(_, _, _)
JoinLines(ls, eol, terminated) ==
    IF ls = <<>> THEN <<>>
    ELSE IF Len(ls) = 1 THEN Head(ls) \o (IF terminated THEN eol ELSE <<>>)
    ELSE Head(ls) \o eol \o JoinLines(Tail(ls), eol, terminated)

\* How a file ends its lines: the terminator, and whether the last line has one.
LineStyles == {<<<<"\n">>, FALSE>>, <<<<"\n">>, TRUE>>, <<<<"\r", "\n">>, TRUE>>}

\* ------------------------------------------------------- unused variables

\* Each specification leaves the variables of the others at these values.
SpokeIdle == spoke = None /\ outline = None /\ spoke_path = None
SvgIdle == svg_doc = None /\ svg_again = None /\ other = None /\ svg_other = None
AppIdle ==
    /\ chain = None /\ profiles = None /\ profile_name = None
    /\ selected_profile = None /\ saves = None /\ last_load = None

\* ------------------------------------------------- derived radii (SpecGeom)

InitGeom ==
    /\ \E o \in F64Samples, t \in F64Samples, g \in F64Samples, c \in F64Samples :
          config = [DefaultConfig EXCEPT !.ring_outer_radius = o,
                                         !.ring_thickness = t,
                                         !.gap_from_ring = g,
                                         !.center_gap_radius = c]
    /\ radii = None
    /\ raw = None /\ parsed = None /\ reparsed = None
    /\ csv = None /\ disk = None /\ pc = "idle" /\ pairs = None /\ idx = 0
    /\ cfg = None /\ renders = <<>> /\ result = None
    /\ user_csvs = None
    /\ SpokeIdle /\ SvgIdle /\ AppIdle

\* The renderers derive the four radii of the configuration.
DeriveRadii ==
    /\ pc = "idle" /\ radii = None /\ raw = None
    /\ radii' = [draw |-> ring_draw_radius(config),
                 inner |-> ring_inner_radius(config),
                 base |-> spoke_base_radius(config),
                 tip |-> spoke_tip_radius(config)]
    /\ UNCHANGED <<config, raw, parsed, reparsed, csv, disk, pc, pairs, idx,
                   cfg, renders, result>>
    /\ UNCHANGED <<spokeVars, svgVars, appVars, user_csvs>>

NextGeom == DeriveRadii
SpecGeom == InitGeom /\ [][NextGeom]_vars

\* a >= 0.0
FGe0(a) == a.k = "pinf" \/ (a.k = "fin" /\ a.v >= 0)

\* C1: for every configuration, whatever the sign and magnitude of its radius
\* fields (NaN and the infinities included), the four derived radii are >= 0.
Thm_C1_RadiiNonNegative ==
    radii # None =>
        /\ FGe0(radii.draw)
        /\ FGe0(radii.inner)
        /\ FGe0(radii.base)
        /\ FGe0(radii.tip)

\* The radii of a configuration whose ring is thicker than its outer radius
\* and whose other radius fields are negative.
Wit_C1_NegativeInputsClamped ==
    /\ radii # None
    /\ config.ring_outer_radius = FromInt(1)
    /\ config.ring_thickness = FromInt(2)
    /\ config.gap_from_ring = FromInt(-1)
    /\ config.center_gap_radius = FromInt(-2)
    /\ radii.tip = Zero

\* The reference formulas, in whole-number arithmetic.
RefMax0(x) == IF x > 0 THEN x ELSE 0
Whole(a) == a.v \div 2
FiniteRadiusFields ==
    /\ IsFin(config.ring_outer_radius)
    /\ IsFin(config.ring_thickness)
    /\ IsFin(config.gap_from_ring)
    /\ IsFin(config.center_gap_radius)

\* C2: for every configuration of finite fields the derived radii are
\* draw = max(0, outer - thickness/2), inner = max(0, outer - thickness),
\* base = max(0, inner - gap) with the clamped inner, tip = max(0, center_gap);
\* outer = 118, thickness = 20, gap = 10 gives draw 108, inner 98, base 88.
Thm_C2_RadiiMatchReference ==
    (radii # None /\ FiniteRadiusFields) =>
        LET o == Whole(config.ring_outer_radius)
            t == Whole(config.ring_thickness)
            g == Whole(config.gap_from_ring)
            c == Whole(config.center_gap_radius)
        IN  /\ radii.draw = Fin(RefMax0(2 * o - t))
            /\ radii.inner = Fin(2 * RefMax0(o - t))
            /\ radii.base = Fin(2 * RefMax0(RefMax0(o - t) - g))
            /\ radii.tip = Fin(2 * RefMax0(c))
            /\ (o = 118 /\ t = 20 /\ g = 10) =>
                  /\ radii.draw = FromInt(108)
                  /\ radii.inner = FromInt(98)
                  /\ radii.base = FromInt(88)

\* The radii of outer = 118, thickness = 20, gap = 10.
Wit_C2_DefaultRadii ==
    /\ radii # None
    /\ config.ring_outer_radius = FromInt(118)
    /\ config.ring_thickness = FromInt(20)
    /\ config.gap_from_ring = FromInt(10)
    /\ radii.draw = FromInt(108)
    /\ radii.inner = FromInt(98)
    /\ radii.base = FromInt(88)

\* ------------------------------------------------ colour tokens (SpecHex)

\* A token: a body or an example, behind up to MaxHashes '#', with up to MaxPad
\* blanks on each side.
InitHex ==
    /\ \/ raw \in ExampleTokens
       \/ \E j \in 0..MaxHashes, lead \in 0..MaxPad, trail \in 0..MaxPad,
             n \in (HexLen - 1)..(HexLen + 1) :
             \E b \in Bodies(n) :
                   raw = Repeat(" ", lead) \o Repeat("#", j) \o b \o Repeat(" ", trail)
    /\ parsed = None /\ reparsed = None
    /\ config = None /\ radii = None
    /\ csv = None /\ disk = None /\ pc = "idle" /\ pairs = None /\ idx = 0
    /\ cfg = None /\ renders = <<>> /\ result = None
    /\ user_csvs = None
    /\ SpokeIdle /\ SvgIdle /\ AppIdle

\* parse_color_spec(raw)
ParseColorSpec ==
    /\ pc = "idle" /\ raw # None /\ parsed = None
    /\ parsed' = parse_color_spec(raw)
    /\ UNCHANGED <<config, radii, raw, reparsed, csv, disk, pc, pairs, idx,
                   cfg, renders, result>>
    /\ UNCHANGED <<spokeVars, svgVars, appVars, user_csvs>>

\* parse_color_spec of the canonical hex that the first parse returned
ParseCanonicalAgain ==
    /\ pc = "idle" /\ parsed # None /\ parsed.ok /\ reparsed = None
    /\ reparsed' = parse_color_spec(parsed.val.hex)
    /\ UNCHANGED <<config, radii, raw, parsed, csv, disk, pc, pairs, idx,
                   cfg, renders, result>>
    /\ UNCHANGED <<spokeVars, svgVars, appVars, user_csvs>>

NextHex == ParseColorSpec \/ ParseCanonicalAgain
SpecHex == InitHex /\ [][NextHex]_vars

\* The reference notion of a hex digit and of its value and upper-case form.
RefHexDigits ==
    {"0", "1", "2", "3", "4", "5", "6", "7", "8", "9",
     "a", "b", "c", "d", "e", "f", "A", "B", "C", "D", "E", "F"}
RefUpper(c) ==
    CASE c = "a" -> "A" [] c = "b" -> "B" [] c = "c" -> "C"
      [] c = "d" -> "D" [] c = "e" -> "E" [] c = "f" -> "F"
      [] OTHER -> c
RefValue(c) ==
    CASE c = "0" -> 0 [] c = "1" -> 1 [] c = "2" -> 2 [] c = "3" -> 3
      [] c = "4" -> 4 [] c = "5" -> 5 [] c = "6" -> 6 [] c = "7" -> 7
      [] c = "8" -> 8 [] c = "9" -> 9
      [] RefUpper(c) = "A" -> 10 [] RefUpper(c) = "B" -> 11
      [] RefUpper(c) = "C" -> 12 [] RefUpper(c) = "D" -> 13
      [] RefUpper(c) = "E" -> 14 [] RefUpper(c) = "F" -> 15
RefByte(h, i) == 16 * RefValue(h[i]) + RefValue(h[i + 1])

\* t is exactly six hex digits
SixHexDigits(t) == Len(t) = 6 /\ \A i \in DOMAIN t : t[i] \in RefHexDigits
\* t is an optional single '#' followed by exactly six hex digits
WellFormedToken(t) ==
    \/ SixHexDigits(t)
    \/ (t # <<>> /\ Head(t) = "#" /\ SixHexDigits(Tail(t)))
\* t without the white space around it
RefStripBlanks(t) ==
    LET keep == {i \in DOMAIN t : t[i] # " "}
    IN  IF keep = {} THEN <<>>
        ELSE SubSeq(t, CHOOSE i \in keep : \A j \in keep : i <= j,
                       CHOOSE i \in keep : \A j \in keep : i >= j)

\* C4, as claimed: a token (the white space around it aside) is accepted if and
\* only if it is an optional single '#' followed by exactly 6 hex digits; every
\* other token is rejected with an invalid-hex-color error.
Claim_C4_AcceptedIffWellFormed ==
    parsed # None =>
        /\ parsed.ok <=> WellFormedToken(RefStripBlanks(raw))
        /\ ~parsed.ok => parsed.err.fmt = "Invalid hex color: {}"

\* C5: for a token h or '#' + h, h six hex digits in any case, the ColorSpec has
\* hex = h in upper case without '#' and rgb = the byte values of the three
\* digit pairs, so all case and prefix variants of h parse alike ("#ffAA00" and
\* "ffaa00" give (255,170,0) and "FFAA00"); parsing the canonical hex again
\* returns the same ColorSpec.
Thm_C5_CaseAndPrefixInsensitive ==
    (parsed # None /\ WellFormedToken(raw)) =>
        LET h == IF Head(raw) = "#" THEN Tail(raw) ELSE raw
        IN  /\ parsed.ok
            /\ parsed.val.hex = [i \in 1..6 |-> RefUpper(h[i])]
            /\ parsed.val.rgb = <<RefByte(h, 1), RefByte(h, 3), RefByte(h, 5)>>
            /\ raw \in {<<"#", "f", "f", "A", "A", "0", "0">>, <<"f", "f", "a", "a", "0", "0">>} =>
                  /\ parsed.val.rgb = <<255, 170, 0>>
                  /\ parsed.val.hex = <<"F", "F", "A", "A", "0", "0">>
            /\ reparsed # None => reparsed = parsed

\* "#ffAA00" parsed to (255,170,0) and "FFAA00", and the canonical hex parsed
\* again to the same.
Wit_C5_MixedCaseHashed ==
    /\ raw = <<"#", "f", "f", "A", "A", "0", "0">>
    /\ parsed = Ok([rgb |-> <<255, 170, 0>>, hex |-> <<"F", "F", "A", "A", "0", "0">>])
    /\ reparsed = parsed

\* ------------------------------------------- generate_batch_svgs (SpecBatch)

\* The library before the batch: not there yet, with a file to seed it from,
\* the colour-pair file being the default one or another; or there already,
\* with nothing to seed.
Libraries ==
    {[default_path |-> d, sources |-> {"unique_crosshair_color_pairs.csv"},
      exists |-> FALSE, files |-> {}] : d \in BOOLEAN}
        \cup {[default_path |-> TRUE, sources |-> {}, exists |-> TRUE, files |-> {}]}

InitBatch ==
    /\ config \in Templates
    /\ \E n \in 0..MaxLines : \E ls \in [1..n -> SampleLines] : \E st \in LineStyles :
          csv = JoinLines(ls, st[1], st[2])
    /\ disk \in {[exists |-> x, files |-> <<>>] : x \in BOOLEAN}
    /\ user_csvs \in Libraries
    /\ pc = "load"
    /\ pairs = None /\ idx = 0 /\ cfg = None /\ renders = <<>> /\ result = None
    /\ radii = None /\ raw = None /\ parsed = None /\ reparsed = None
    /\ SpokeIdle /\ SvgIdle /\ AppIdle

\* let pairs = load_color_pairs(csv_path)?;  -- the library is seeded if the
\* path is the default one, then the file is read and parsed
LoadColorPairs ==
    /\ pc = "load"
    /\ LET loaded == load_color_pairs(csv)
       IN  IF loaded.ok
           THEN pairs' = loaded.val /\ pc' = "mkdir" /\ UNCHANGED result
           ELSE result' = loaded /\ pc' = "done" /\ UNCHANGED pairs
    /\ UNCHANGED <<config, radii, raw, parsed, reparsed, csv, disk, idx, cfg,
                   renders>>
    /\ UNCHANGED <<spokeVars, svgVars, appVars>>
    /\ user_csvs' = seed_if_default_path(user_csvs)

\* let csv = fs::read_to_string(path)?;  -- the read fails
ReadFails ==
    /\ pc = "load"
    /\ result' = Err(IoError("read_to_string"))
    /\ pc' = "done"
    /\ UNCHANGED <<config, radii, raw, parsed, reparsed, csv, disk, pairs, idx,
                   cfg, renders>>
    /\ UNCHANGED <<spokeVars, svgVars, appVars>>
    /\ user_csvs' = seed_if_default_path(user_csvs)

\* fs::create_dir_all(out_dir)?; let mut cfg = config.clone();
CreateDirAll ==
    /\ pc = "mkdir"
    /\ disk' = [disk EXCEPT !.exists = TRUE]
    /\ cfg' = config
    /\ idx' = 0
    /\ pc' = "loop"
    /\ UNCHANGED <<config, radii, raw, parsed, reparsed, csv, pairs, renders,
                   result>>
    /\ UNCHANGED <<spokeVars, svgVars, appVars, user_csvs>>

\* fs::create_dir_all(out_dir)?;  -- the directory cannot be created
CreateDirFails ==
    /\ pc = "mkdir" /\ ~disk.exists
    /\ result' = Err(IoError("create_dir_all"))
    /\ pc' = "done"
    /\ UNCHANGED <<config, radii, raw, parsed, reparsed, csv, disk, pairs, idx,
                   cfg, renders>>
    /\ UNCHANGED <<spokeVars, svgVars, appVars, user_csvs>>

\* One pass of the loop: the colours are set, the document is built and saved.
RenderAndSave ==
    /\ pc = "loop" /\ idx < Len(pairs)
    /\ LET rim == pairs[idx + 1].rim
           arms == pairs[idx + 1].arms
           c == with_pair_colors(cfg, rim, arms)
           path == batch_filename(rim, arms)
           doc == generate_svg(c)
       IN  /\ cfg' = c
           /\ renders' = Append(renders, [path |-> path, cfg |-> c, doc |-> doc])
           /\ disk' = [disk EXCEPT !.files = save(@, path, doc)]
    /\ idx' = idx + 1
    /\ UNCHANGED <<config, radii, raw, parsed, reparsed, csv, pc, pairs, result>>
    /\ UNCHANGED <<spokeVars, svgVars, appVars, user_csvs>>

\* One pass of the loop in which svg::save(&path, &doc)? fails: the file was
\* not created, or was created and not written in full.
SaveFails ==
    /\ pc = "loop" /\ idx < Len(pairs)
    /\ LET rim == pairs[idx + 1].rim
           arms == pairs[idx + 1].arms
           c == with_pair_colors(cfg, rim, arms)
           path == batch_filename(rim, arms)
           doc == generate_svg(c)
       IN  /\ cfg' = c
           /\ renders' = Append(renders, [path |-> path, cfg |-> c, doc |-> doc])
           /\ \E created \in BOOLEAN :
                 disk' = IF created
                         THEN [disk EXCEPT !.files = save(@, path, "truncated")]
                         ELSE disk
    /\ result' = Err(IoError("save"))
    /\ pc' = "done"
    /\ UNCHANGED <<config, radii, raw, parsed, reparsed, csv, pairs, idx>>
    /\ UNCHANGED <<spokeVars, svgVars, appVars, user_csvs>>

\* Ok(pairs.len())
ReturnCount ==
    /\ pc = "loop" /\ idx = Len(pairs)
    /\ result' = Ok(Len(pairs))
    /\ pc' = "done"
    /\ UNCHANGED <<config, radii, raw, parsed, reparsed, csv, disk, pairs, idx,
                   cfg, renders>>
    /\ UNCHANGED <<spokeVars, svgVars, appVars, user_csvs>>

NextBatch ==
    \/ LoadColorPairs
    \/ ReadFails
    \/ CreateDirAll
    \/ CreateDirFails
    \/ RenderAndSave
    \/ SaveFails
    \/ ReturnCount
SpecBatch == InitBatch /\ [][NextBatch]_vars

\* ------------------------------------------------------ reference notions

\* n >= 0 in decimal
RECURSIVE Decimal(_)
Decimal(n) ==
    IF n < 10 THEN <<Digits[n + 1]>>
    ELSE Decimal(n \div 10) \o <<Digits[(n % 10) + 1]>>

\* xhMan_<size>px-rim-<RIMHEX>_arms-<ARMHEX>.svg
ExpectedName(size, rimhex, armshex) ==
    <<"x", "h", "M", "a", "n", "_">> \o Decimal(size) \o <<"p", "x", "-", "r", "i", "m", "-">> \o rimhex \o <<"_", "a", "r", "m", "s", "-">> \o armshex \o <<".", "s", "v", "g">>

\* The lines of the input, and the numbers (1-based) of its data rows: the
\* non-blank lines after the first.
InputLines == lines(csv)
IsBlank(line) == \A i \in DOMAIN line : line[i] \in {" ", "\t"}
DataRows(ls) == {n \in 2..Len(ls) : ~IsBlank(ls[n])}
\* The number of the i-th data row.
NthDataRow(ls, i) ==
    LET rows == DataRows(ls)
    IN  CHOOSE n \in rows : Cardinality({m \in rows : m <= n}) = i

HasComma(line) == \E i \in DOMAIN line : line[i] = ","
FirstComma(line) == CHOOSE i \in DOMAIN line : line[i] = "," /\ \A j \in 1..(i - 1) : line[j] # ","
RefOuter(line) == RefStripBlanks(SubSeq(line, 1, FirstComma(line) - 1))
RefInner(line) == RefStripBlanks(SubSeq(line, FirstComma(line) + 1, Len(line)))
\* A row is good when it has a comma with a well-formed hex token on each side.
RefRowOk(line) ==
    /\ HasComma(line)
    /\ WellFormedToken(RefOuter(line))
    /\ WellFormedToken(RefInner(line))
BadRows(ls) == {n \in DataRows(ls) : ~RefRowOk(ls[n])}

\* The canonical form of a well-formed token, and its three bytes.
RefCanonical(t) ==
    LET h == IF Head(t) = "#" THEN Tail(t) ELSE t
    IN  [i \in 1..6 |-> RefUpper(h[i])]
RefRgb(t) ==
    LET h == RefCanonical(t)
    IN  <<RefByte(h, 1), RefByte(h, 3), RefByte(h, 5)>>
RefPairKey(line) == <<RefCanonical(RefOuter(line)), RefCanonical(RefInner(line))>>

Done == pc = "done"
Succeeded == pc = "done" /\ result.ok

\* ----------------------------------------------------------------- claims

\* C3, as claimed: every file the batch writes is named
\* xhMan_<s>px-rim-<RIMHEX>_arms-<ARMHEX>.svg with s the size of the template.
Claim_C3_FilenameEmbedsSize ==
    \A i \in DOMAIN renders :
        renders[i].path =
            ExpectedName(config.size, pairs[i].rim.hex, pairs[i].arms.hex)

\* C6: the batch is fail-fast.  If a data row is malformed, the batch returns
\* an error and writes nothing at all, the valid rows after it included; if
\* writing the artifact of row k fails, the batch returns that error, nothing
\* was rendered for the rows after k and no file of theirs is on disk.
Thm_C6_FailFast ==
    /\ BadRows(InputLines) # {} =>
          /\ renders = <<>>
          /\ DOMAIN disk.files = {}
          /\ Done => ~result.ok
    /\ (Done /\ result = Err(IoError("save"))) =>
          /\ Len(renders) = idx + 1
          /\ idx + 1 <= Len(pairs)
          /\ \A name \in DOMAIN disk.files :
                \E j \in 1..(idx + 1) :
                    name = batch_filename(pairs[j].rim, pairs[j].arms)

\* A batch that failed on its second line, "ZZZZZZ,00FF00", and wrote nothing
\* for the valid third line.
Wit_C6_BadRowThenValidRow ==
    /\ Done /\ ~result.ok
    /\ InputLines = <<HeaderLine, BadOuterLine, PairA>>
    /\ result.err.kind = "InvalidData"
    /\ DOMAIN disk.files = {}

\* C7, as claimed: a rejected row, whether it lacks the comma or has an invalid
\* outer or inner hex token, is reported with its 1-based line number.
Claim_C7_ErrorNamesLine ==
    (Done /\ ~result.ok /\ result.err.kind = "InvalidData") =>
        /\ result.err.fmt = "Invalid row {}: {}"
        /\ LET bad == BadRows(InputLines)
           IN  result.err.args[1] = CHOOSE n \in bad : \A m \in bad : n <= m

\* C8: a successful batch returns the number of artifacts it wrote, which is
\* the number of non-blank lines after the first line; the i-th render is that
\* of the i-th such line.
Thm_C8_CountIsDataRows ==
    Succeeded =>
        LET ls == InputLines
        IN
        /\ result.val = Cardinality(DataRows(ls))
        /\ Len(renders) = result.val
        /\ \A i \in DOMAIN renders :
              LET line == ls[NthDataRow(ls, i)]
                  c == renders[i].cfg
              IN  /\ <<c.rim_color[1], c.rim_color[2], c.rim_color[3]>> = RefRgb(RefOuter(line))
                  /\ <<c.arm_color[1], c.arm_color[2], c.arm_color[3]>> = RefRgb(RefInner(line))
                  /\ renders[i].path \in DOMAIN disk.files

\* A batch whose first line is itself a valid pair and whose second line is
\* blank: one artifact.
Wit_C8_ValidFirstLineSkipped ==
    /\ Succeeded
    /\ InputLines = <<PairB, <<" ">>, PairA>>
    /\ result.val = 1
    /\ Len(renders) = 1

\* C9: after a successful batch into an empty directory the files on disk are
\* as many as the distinct pairs of the data rows, a pair taken without '#' and
\* in upper case, and each file holds the last render saved under its name.
Thm_C9_OneFilePerDistinctPair ==
    Succeeded =>
        /\ LET ls == InputLines
           IN  Cardinality(DOMAIN disk.files) =
                  Cardinality({RefPairKey(ls[n]) : n \in DataRows(ls)})
        /\ \A name \in DOMAIN disk.files :
              LET saved == {i \in DOMAIN renders : renders[i].path = name}
                  last == CHOOSE i \in saved : \A j \in saved : j <= i
              IN  saved # {} /\ disk.files[name] = renders[last].doc

\* Two rows naming the same pair, the second in lower case with a '#': two
\* artifacts written, one file on disk.
Wit_C9_SamePairTwice ==
    /\ Succeeded
    /\ InputLines = <<HeaderLine, PairA, PairAVariant>>
    /\ result.val = 2
    /\ Cardinality(DOMAIN disk.files) = 1

\* Every rendered configuration carries its pair's colours at alpha 1.0 and the
\* template's value in every other field.
RenderedWithPairColors ==
    \A i \in DOMAIN renders :
        LET c == renders[i].cfg
            rim == pairs[i].rim.rgb
            arms == pairs[i].arms.rgb
        IN  /\ c.rim_color = <<rim[1], rim[2], rim[3], FromInt(1)>>
            /\ c.arm_color = <<arms[1], arms[2], arms[3], FromInt(1)>>
            /\ DOMAIN c = DOMAIN config
            /\ \A f \in DOMAIN c \ {"rim_color", "arm_color"} : c[f] = config[f]
            /\ renders[i].doc = generate_svg(c)

\* C10: every step of a batch leaves the caller's template as it was, and the
\* configuration rendered for each pair has rim_color = (rim RGB, 1.0) and
\* arm_color = (arm RGB, 1.0), whatever the template's alpha and the colours of
\* the pairs before it, and the template's value in every other field.
Thm_C10_OnlyColoursReplaced ==
    [][config' = config /\ RenderedWithPairColors']_vars

\* Two pairs rendered from the translucent template: both at alpha 1.0, the
\* second with its own colours.
Wit_C10_TranslucentTemplate ==
    /\ Succeeded
    /\ config = CustomConfig
    /\ InputLines = <<HeaderLine, PairA, PairB>>
    /\ Len(renders) = 2
    /\ renders[2].cfg.rim_color = <<0, 0, 255, FromInt(1)>>
    /\ renders[2].cfg.arm_color = <<255, 255, 255, FromInt(1)>>
    /\ renders[2].cfg.size = 512

\* ------------------------------------------------ spoke builders (SpecSpoke)

\* Radii are the whole numbers 0..MaxSpokeRadius.
MaxSpokeRadius == 3

\* Centres: the origin, the centre of the smallest canvas, and one off the grid
\* of whole numbers with a negative coordinate.
Centres == {<<0, 0>>, <<32 * Unit, 32 * Unit>>, <<Unit \div 2, 0 - Unit>>}

\* <<cos, sin>> of the angle: 0, 90 and 180 degrees, and two angles off the axes
\* whose cosine and sine are ratios.
Directions ==
    { << <<1, 1>>, <<0, 1>> >>, << <<0, 1>>, <<1, 1>> >>, << <<-1, 1>>, <<0, 1>> >>,
      << <<3, 5>>, <<4, 5>> >>, << <<-4, 5>>, <<3, 5>> >> }

\* base_width: 0, 1, 3
BaseWidths == {0, Unit, 3 * Unit}
\* tip_width: -1, 0, 0.01, 0.02, 1
TipWidths == {0 - Unit, 0, Unit \div 100, Unit \div 50, Unit}

InitSpoke ==
    /\ \E c \in Centres, u \in Directions,
          tip_r \in 0..MaxSpokeRadius, base_r \in 0..MaxSpokeRadius,
          bw \in BaseWidths, tw \in TipWidths :
          spoke = [cx |-> c[1], cy |-> c[2], ux |-> u[1], uy |-> u[2],
                   tip_r |-> tip_r * Unit, base_r |-> base_r * Unit,
                   base_width |-> bw, tip_width |-> tw]
    /\ outline = None /\ spoke_path = None
    /\ SvgIdle /\ AppIdle
    /\ config = None /\ radii = None
    /\ raw = None /\ parsed = None /\ reparsed = None
    /\ csv = None /\ disk = None /\ pc = "idle" /\ pairs = None /\ idx = 0
    /\ cfg = None /\ renders = <<>> /\ result = None
    /\ user_csvs = None

\* The preview builds the polygon of the spoke.
SpokeOutlinePoints ==
    /\ spoke # None /\ outline = None
    /\ outline' = [points |->
                     spoke_outline_points(spoke.cx, spoke.cy, spoke.ux, spoke.uy,
                                          spoke.tip_r, spoke.base_r,
                                          spoke.base_width, spoke.tip_width)]
    /\ UNCHANGED <<spoke, spoke_path, svgVars, appVars>>
    /\ UNCHANGED <<config, radii, raw, parsed, reparsed, csv, disk, pc, pairs,
                   idx, cfg, renders, result, user_csvs>>

\* The vector renderer builds the path of the spoke.
BezierSpoke ==
    /\ spoke # None /\ spoke_path = None
    /\ spoke_path' = [data |->
                        bezier_spoke_data(spoke.cx, spoke.cy, spoke.ux, spoke.uy,
                                          spoke.tip_r, spoke.base_r,
                                          spoke.base_width, spoke.tip_width)]
    /\ UNCHANGED <<spoke, outline, svgVars, appVars>>
    /\ UNCHANGED <<config, radii, raw, parsed, reparsed, csv, disk, pc, pairs,
                   idx, cfg, renders, result, user_csvs>>

NextSpoke == SpokeOutlinePoints \/ BezierSpoke
SpecSpoke == InitSpoke /\ [][NextSpoke]_vars

\* C11: the polygon that spoke_outline_points returns is closed: its first
\* point is its last point, in razor mode and in beveled mode, whatever the
\* centre, the direction, the widths and the two radii (tip inside the base,
\* level with it or outside it).
Thm_C11_OutlineClosed ==
    outline # None =>
        /\ Len(outline.points) >= 2
        /\ outline.points[1] = outline.points[Len(outline.points)]

\* An inverted razor spoke without width and an inverted beveled one are built.
Wit_C11_InvertedRazorNoWidth ==
    /\ outline # None
    /\ spoke.tip_r > spoke.base_r /\ spoke.base_width = 0
    /\ spoke.tip_width <= 0
    /\ spoke.ux = <<3, 5>>

\* The spoke's point at radius r along its direction and h to the right of its
\* axis (to the left for h < 0).
RefAt(r, h) ==
    <<spoke.cx + Times(r, spoke.ux) - Times(h, spoke.uy),
      spoke.cy + Times(r, spoke.uy) + Times(h, spoke.ux)>>

\* |base_radius - tip_radius|
RefDist ==
    IF spoke.base_r >= spoke.tip_r
    THEN spoke.base_r - spoke.tip_r
    ELSE spoke.tip_r - spoke.base_r

\* base_radius - hundredths/100 * dist
RefSectionRadius(hundredths) == spoke.base_r - (hundredths * RefDist) \div 100

\* hundredths/100 * base_width/2
RefSectionHalf(hundredths) == (hundredths * spoke.base_width) \div 200

RefRazor == 100 * spoke.tip_width <= Unit

\* base-left, base-right, shoulder-right, mid-right, pinch-right, tip,
\* pinch-left, mid-left, shoulder-left, base-left
RefRazorAnchors ==
    << RefAt(spoke.base_r, 0 - RefSectionHalf(100)),
       RefAt(spoke.base_r, RefSectionHalf(100)),
       RefAt(RefSectionRadius(25), RefSectionHalf(90)),
       RefAt(RefSectionRadius(60), RefSectionHalf(60)),
       RefAt(RefSectionRadius(90), RefSectionHalf(18)),
       RefAt(spoke.tip_r, 0),
       RefAt(RefSectionRadius(90), 0 - RefSectionHalf(18)),
       RefAt(RefSectionRadius(60), 0 - RefSectionHalf(60)),
       RefAt(RefSectionRadius(25), 0 - RefSectionHalf(90)),
       RefAt(spoke.base_r, 0 - RefSectionHalf(100)) >>

\* Where the ten anchors stand in a razor polygon: three points, the last of
\* the six samples of each of six curves, and the closing point.
RazorAnchorIndex == <<1, 2, 3, 9, 15, 21, 27, 33, 39, 40>>

\* The point a path command ends on.
EndPoint(command) == command[Len(command)]

\* The letters of the commands of a path.
Letters(data) == [i \in DOMAIN data |-> data[i][1]]

\* C15: both builders take the razor branch exactly when tip_width <= 0.01,
\* and a razor outline passes, in this order, through base-left, base-right,
\* shoulder-right, mid-right, pinch-right, the one tip point, pinch-left,
\* mid-left, shoulder-left and base-left again, the three sections standing at
\* base_radius - 0.25, 0.6 and 0.9 times dist with half-widths 0.9, 0.6 and
\* 0.18 times base_width / 2.
Thm_C15_RazorSelectionAndAnchors ==
    /\ outline # None =>
          IF RefRazor
          THEN /\ Len(outline.points) = 40
               /\ \A k \in 1..10 :
                     outline.points[RazorAnchorIndex[k]] = RefRazorAnchors[k]
          ELSE Len(outline.points) = 15
    /\ spoke_path # None =>
          IF RefRazor
          THEN /\ Letters(spoke_path.data) =
                     <<"M", "L", "L", "Q", "Q", "Q", "Q", "Q", "Q", "L", "Z">>
               /\ \A k \in 1..10 :
                     EndPoint(spoke_path.data[k]) = RefRazorAnchors[k]
          ELSE Letters(spoke_path.data) = <<"M", "L", "Q", "L", "Q", "Z">>

\* Both builders have built a spoke whose tip_width is 0.01, the last value of
\* razor mode, with a base wider than nothing and further out than the tip.
Wit_C15_RazorAtThreshold ==
    /\ outline # None /\ spoke_path # None
    /\ 100 * spoke.tip_width = Unit
    /\ spoke.base_width > 0 /\ spoke.base_r > spoke.tip_r
    /\ spoke.ux = <<-4, 5>>

\* How far along the spoke's direction a point stands from the centre.
RadiusOf(p) == Times(p[1] - spoke.cx, spoke.ux) + Times(p[2] - spoke.cy, spoke.uy)

\* The radii of the five cross-sections of a razor outline, given by its ten
\* anchors: base, shoulder, mid, pinch (each midway between its left and its
\* right anchor) and tip.
SectionRadii(a) ==
    << RadiusOf(mean_point(a[1], a[2])),
       RadiusOf(mean_point(a[3], a[9])),
       RadiusOf(mean_point(a[4], a[8])),
       RadiusOf(mean_point(a[5], a[7])),
       RadiusOf(a[6]) >>

\* s runs one way only: it never rises, or it never falls.
Monotone(s) ==
    \/ \A i \in 1..(Len(s) - 1) : s[i] >= s[i + 1]
    \/ \A i \in 1..(Len(s) - 1) : s[i] <= s[i + 1]

OutlineAnchors == [k \in 1..10 |-> outline.points[RazorAnchorIndex[k]]]
PathAnchors == [k \in 1..10 |-> EndPoint(spoke_path.data[k])]

RefCurvePoint(start, ctrl, end, i) ==
    << ((6 - i) * (6 - i) * start[1] + 2 * (6 - i) * i * ctrl[1] + i * i * end[1])
          \div 36,
       ((6 - i) * (6 - i) * start[2] + 2 * (6 - i) * i * ctrl[2] + i * i * end[2])
          \div 36 >>

\* The polygon of a path: its commands from the k-th on are followed from the
\* points acc; a line adds its end point, a curve adds its points at 1/6 .. 6/6.
RECURSIVE RefPolygon(_, _, _)
RefPolygon(data, k, acc) ==
    IF k > Len(data)
    THEN acc
    ELSE LET command == data[k]
         IN  IF command[1] \in {"M", "L"}
             THEN RefPolygon(data, k + 1, Append(acc, command[2]))
             ELSE IF command[1] = "Q"
             THEN RefPolygon(data, k + 1,
                     acc \o [i \in 1..6 |->
                               RefCurvePoint(acc[Len(acc)], command[2], command[3], i)])
             ELSE RefPolygon(data, k + 1, acc)

\* C20: built from the same arguments, the polygon of spoke_outline_points is
\* the path of bezier_spoke with each line kept and each quadratic curve
\* replaced by six points of it, the sixth being the curve's end point: same
\* mode, same anchors in the same order, same control points.
Thm_C20_PolygonIsSampledPath ==
    (outline # None /\ spoke_path # None) =>
        /\ outline.points = RefPolygon(spoke_path.data, 1, <<>>)
        /\ \A k \in DOMAIN spoke_path.data :
              spoke_path.data[k][1] = "Q" =>
                 \E j \in DOMAIN outline.points :
                    /\ j > 6
                    /\ outline.points[j] = spoke_path.data[k][3]
                    /\ outline.points[j] =
                          RefCurvePoint(outline.points[j - 6], spoke_path.data[k][2],
                                        spoke_path.data[k][3], 6)

\* Both builders have built a beveled spoke off the axes, its tip inside its
\* base and half as wide.
Wit_C20_BeveledBothBuilt ==
    /\ outline # None /\ spoke_path # None
    /\ spoke.tip_width = Unit /\ spoke.base_width = 3 * Unit
    /\ spoke.base_r > spoke.tip_r
    /\ spoke.ux = <<3, 5>>
    /\ Len(spoke_path.data) = 6

\* ------------------------------------------------ vector renderer (SpecSvg)

\* ring_outer_radius is a whole number 0..MaxRing or the default's 118;
\* ring_thickness is a whole number 0..2 * MaxRing + 1 or the default's 20.
MaxRing == 2

\* The raster renderer's ring test, which covers the distances from the centre
\* in [ring_inner_radius, ring_outer_radius] (times the supersample factor).
raster_ring_band(c) == [lo |-> ring_inner_radius(c), hi |-> c.ring_outer_radius]

\* The angle lists tried: none, one, the default's four, a repeated angle, and
\* two angles out of order.
AngleLists == {<<>>, <<0>>, <<45, 135, 225, 315>>, <<90, 90>>, <<270, 0>>}

InitSvg ==
    /\ \E size \in {64, 256},
          outer \in (0..MaxRing) \cup {118},
          thickness \in (0..(2 * MaxRing + 1)) \cup {20},
          angles \in AngleLists,
          tip_width \in {Fin(0), Fin(3)},
          template \in Templates :
          config = [template EXCEPT !.size = size,
                                    !.ring_outer_radius = FromInt(outer),
                                    !.ring_thickness = FromInt(thickness),
                                    !.angles = angles,
                                    !.spoke_tip_width = tip_width]
    /\ \E blur \in {FromInt(0), FromInt(1), FromInt(12)},
          glow \in {FromInt(0), FromInt(20)} :
          other = [config EXCEPT !.blur_radius = blur, !.glow_radius = glow]
    /\ svg_doc = None /\ svg_again = None /\ svg_other = None
    /\ SpokeIdle /\ AppIdle
    /\ radii = None
    /\ raw = None /\ parsed = None /\ reparsed = None
    /\ csv = None /\ disk = None /\ pc = "idle" /\ pairs = None /\ idx = 0
    /\ cfg = None /\ renders = <<>> /\ result = None
    /\ user_csvs = None

\* generate_svg(&config)
GenerateSvg ==
    /\ other # None /\ svg_doc = None
    /\ svg_doc' = generate_svg(config)
    /\ UNCHANGED <<svg_again, other, svg_other, spokeVars, appVars>>
    /\ UNCHANGED <<config, radii, raw, parsed, reparsed, csv, disk, pc, pairs,
                   idx, cfg, renders, result, user_csvs>>

\* generate_svg(&config), once more
GenerateSvgAgain ==
    /\ other # None /\ svg_doc # None /\ svg_again = None
    /\ svg_again' = generate_svg(config)
    /\ UNCHANGED <<svg_doc, other, svg_other, spokeVars, appVars>>
    /\ UNCHANGED <<config, radii, raw, parsed, reparsed, csv, disk, pc, pairs,
                   idx, cfg, renders, result, user_csvs>>

\* generate_svg(&other)
GenerateSvgOther ==
    /\ other # None /\ svg_other = None
    /\ svg_other' = generate_svg(other)
    /\ UNCHANGED <<svg_doc, svg_again, other, spokeVars, appVars>>
    /\ UNCHANGED <<config, radii, raw, parsed, reparsed, csv, disk, pc, pairs,
                   idx, cfg, renders, result, user_csvs>>

NextSvg == GenerateSvg \/ GenerateSvgAgain \/ GenerateSvgOther
SpecSvg == InitSvg /\ [][NextSvg]_vars

\* max(0, ring_outer_radius - ring_thickness / 2) of finite fields
RefDrawRadius ==
    Fin(RefMax0(config.ring_outer_radius.v - config.ring_thickness.v \div 2))

\* C12: the document has width = height = size and viewBox "0 0 size size";
\* its children are one group and then one circle; the group holds one filled
\* path per entry of config.angles, in that order (a repeated angle twice, no
\* angle none); the circle has radius ring_draw_radius, stroke width
\* ring_thickness and fill "none".
Thm_C12_DocumentStructure ==
    svg_doc # None =>
        /\ svg_doc.width = config.size /\ svg_doc.height = config.size
        /\ svg_doc.viewBox.fmt = "0 0 {} {}"
        /\ svg_doc.viewBox.args = <<config.size, config.size>>
        /\ Len(svg_doc.children) = 2
        /\ LET group == svg_doc.children[1]
               ring == svg_doc.children[2]
           IN  /\ group.tag = "g"
               /\ Len(group.children) = Len(config.angles)
               /\ \A i \in DOMAIN config.angles :
                     /\ group.children[i].tag = "path"
                     /\ group.children[i].d.angle_deg = config.angles[i]
                     /\ group.children[i].fill.args = config.arm_color
               /\ ring.tag = "circle"
               /\ ring.r = RefDrawRadius
               /\ ring.stroke_width = config.ring_thickness
               /\ ring.stroke.args = config.rim_color
               /\ ring.fill = "none"

\* A document was built for a configuration that names the same angle twice.
Wit_C12_RepeatedAngle ==
    /\ svg_doc # None
    /\ config.angles = <<90, 90>>
    /\ Len(svg_doc.children[1].children) = 2
    /\ svg_doc.children[1].children[1] = svg_doc.children[1].children[2]

\* The two configurations agree on every field but blur_radius and glow_radius.
SameButBlurAndGlow(a, b) ==
    [a EXCEPT !.blur_radius = Zero, !.glow_radius = Zero] =
    [b EXCEPT !.blur_radius = Zero, !.glow_radius = Zero]

VectorAnnulus(ring) ==
    <<RefMax0(2 * ring.r.v - ring.stroke_width.v), 2 * ring.r.v + ring.stroke_width.v>>
RasterBand(band) == <<2 * band.lo.v, 2 * band.hi.v>>

\* C14: for every configuration the vector ring covers exactly the band of
\* radii [ring_inner_radius, ring_outer_radius] of the raster ring test.
Claim_C14_SameRingInBothRenderers ==
    svg_doc # None =>
        VectorAnnulus(svg_doc.children[2]) = RasterBand(raster_ring_band(config))

\* ------------------------------------------- profile files (SpecProfiles)

\* At most MaxSaves calls of save_profile_to_disk are made.
MaxSaves == 2

\* The names tried: two that differ in a character that is not kept, one of
\* its own, one with a blank in front, and one of blanks only.
ProfileNames ==
    { <<"a", " ", "b">>, <<"a", "_", "b">>, <<"b">>, <<" ", "b">>, <<" ">> }

InitProfiles ==
    /\ profiles = <<>> /\ saves = <<>> /\ last_load = None
    /\ chain = None /\ profile_name = None /\ selected_profile = None
    /\ SpokeIdle /\ SvgIdle
    /\ config = None /\ radii = None
    /\ raw = None /\ parsed = None /\ reparsed = None
    /\ csv = None /\ disk = None /\ pc = "idle" /\ pairs = None /\ idx = 0
    /\ cfg = None /\ renders = <<>> /\ result = None
    /\ user_csvs = None

\* save_profile_to_disk(&c, n), the file system doing its part
SaveProfileToDisk ==
    /\ Len(saves) < MaxSaves
    /\ \E n \in ProfileNames, c \in Templates :
          LET done == save_profile_to_disk(profiles, c, n)
          IN  /\ profiles' = done.dir
              /\ saves' = Append(saves, [name |-> n, config |-> c,
                                         result |-> done.result])
    /\ last_load' = None
    /\ UNCHANGED <<chain, profile_name, selected_profile, spokeVars, svgVars>>
    /\ UNCHANGED <<config, radii, raw, parsed, reparsed, csv, disk, pc, pairs,
                   idx, cfg, renders, result, user_csvs>>

\* save_profile_to_disk(&c, n) in which File::create or the write fails: the
\* file was not created, or was created and not written in full.
SaveProfileFails ==
    /\ Len(saves) < MaxSaves
    /\ \E n \in ProfileNames, c \in Templates, created \in BOOLEAN :
          LET p == profile_path(n)
          IN  /\ p.ok
              /\ profiles' = IF created THEN save(profiles, p.val, Truncated)
                                        ELSE profiles
              /\ saves' = Append(saves, [name |-> n, config |-> c,
                                         result |-> Err(IoError("save"))])
    /\ last_load' = None
    /\ UNCHANGED <<chain, profile_name, selected_profile, spokeVars, svgVars>>
    /\ UNCHANGED <<config, radii, raw, parsed, reparsed, csv, disk, pc, pairs,
                   idx, cfg, renders, result, user_csvs>>

\* load_profile_from_disk(n)
LoadProfileFromDisk ==
    /\ \E n \in ProfileNames :
          last_load' = [name |-> n, result |-> load_profile_from_disk(profiles, n)]
    /\ UNCHANGED <<chain, profiles, profile_name, selected_profile, saves,
                   spokeVars, svgVars>>
    /\ UNCHANGED <<config, radii, raw, parsed, reparsed, csv, disk, pc, pairs,
                   idx, cfg, renders, result, user_csvs>>

NextProfiles == SaveProfileToDisk \/ SaveProfileFails \/ LoadProfileFromDisk
SpecProfiles == InitProfiles /\ [][NextProfiles]_vars

\* The characters a profile's file name keeps.
RefKept ==
    Range(Digits) \cup Range(LowerLetters) \cup Range(UpperLetters) \cup {"-", "_"}

\* The name a profile goes by on disk: the blanks around it dropped, and '_'
\* for every character that is not kept.  <<>> for a name of blanks.
RefStem(name) ==
    LET t == RefStripBlanks(name)
    IN  [i \in DOMAIN t |-> IF t[i] \in RefKept THEN t[i] ELSE "_"]

\* No save so far has failed for the file system's part.
NoSaveFailed ==
    \A i \in DOMAIN saves : saves[i].result.ok \/ RefStem(saves[i].name) = <<>>

\* The last of the saves in the set of indices among.
LastOf(among) == CHOOSE i \in among : \A j \in among : j <= i

SliderSizes == {MIN_CANVAS_SIZE, MAX_CANVAS_SIZE}
SliderRadii == {FromInt(1), Fin(201), MAX_RING_OUTER_RADIUS}

\* What is typed into the profile name field.
TypedNames == {<<>>, <<" ", "o">>}

\* The profile directory when the application starts: empty, or holding one
\* profile, written by hand or by another program, whose size is 16 or 16384.
StartProfiles ==
    {<<>>}
        \cup {(<<"o", ".", "j", "s", "o", "n">> :> to_json([DefaultConfig EXCEPT !.size = s])) :
                 s \in {16, 16384}}

\* CrosshairApp::new()
InitApp ==
    /\ config = DefaultConfig
    /\ chain = FALSE
    /\ profile_name = <<>>
    /\ selected_profile = None
    /\ profiles \in StartProfiles
    /\ saves = None /\ last_load = None
    /\ SpokeIdle /\ SvgIdle
    /\ radii = None
    /\ raw = None /\ parsed = None /\ reparsed = None
    /\ csv = None /\ disk = None /\ pc = "idle" /\ pairs = None /\ idx = 0
    /\ cfg = None /\ renders = <<>> /\ result = None
    /\ user_csvs = None

\* What no frame of the application touches.
AppRest ==
    UNCHANGED <<saves, last_load, spokeVars, svgVars, radii, raw, parsed,
                reparsed, csv, disk, pc, pairs, idx, cfg, renders, result,
                user_csvs>>

\* A frame in which the name field is edited.
EditProfileName ==
    /\ \E n \in TypedNames : profile_name' = n
    /\ UNCHANGED <<config, chain, selected_profile, profiles>>
    /\ AppRest

\* A frame in which a profile of the list is selected.
SelectProfile ==
    /\ \E s \in list_profiles(profiles) : selected_profile' = Some(s)
    /\ UNCHANGED <<config, chain, profile_name, profiles>>
    /\ AppRest

\* A frame in which "Save profile" is clicked: save_profile()
SaveProfileClicked ==
    /\ profiles' = save_profile_to_disk(profiles, config, trim(profile_name)).dir
    /\ UNCHANGED <<config, chain, profile_name, selected_profile>>
    /\ AppRest

\* A frame in which "Revert default" is clicked: revert_defaults()
RevertDefaultClicked ==
    /\ config' = DefaultConfig
    /\ UNCHANGED <<chain, profile_name, selected_profile, profiles>>
    /\ AppRest

\* A frame in which "Load" is clicked: load_profile().  The sliders drawn later
\* in the frame are handed the fields by reference and are not dragged.
LoadClicked ==
    /\ LET preferred == preferred_profile(profile_name, selected_profile)
       IN  /\ preferred # None
           /\ LET got == load_profile_from_disk(profiles, preferred.some)
              IN  IF got.ok
                  THEN /\ config' = got.val
                       /\ profile_name' = preferred.some
                       /\ selected_profile' = Some(preferred.some)
                  ELSE UNCHANGED <<config, profile_name, selected_profile>>
    /\ UNCHANGED <<chain, profiles>>
    /\ AppRest

\* A frame in which the canvas size slider is dragged to size.
SizeSliderDragged ==
    /\ \E size \in SliderSizes :
          /\ size # config.size
          /\ config' = IF chain
                       THEN [config EXCEPT
                               !.size = size,
                               !.ring_outer_radius =
                                   f64_clamp(canvas_border_radius(size), Zero,
                                             MAX_RING_OUTER_RADIUS)]
                       ELSE [config EXCEPT !.size = size]
    /\ UNCHANGED <<chain, profile_name, selected_profile, profiles>>
    /\ AppRest

\* A frame in which the ring outer radius slider is dragged to r.
RingRadiusSliderDragged ==
    /\ \E r \in SliderRadii :
          /\ r # config.ring_outer_radius
          /\ config' = IF chain
                       THEN [config EXCEPT !.ring_outer_radius = r,
                                           !.size = chained_size(r)]
                       ELSE [config EXCEPT !.ring_outer_radius = r]
    /\ UNCHANGED <<chain, profile_name, selected_profile, profiles>>
    /\ AppRest

\* A frame in which "Chain size <-> radius" is toggled.
ToggleChain ==
    /\ chain' = ~chain
    /\ UNCHANGED <<config, profile_name, selected_profile, profiles>>
    /\ AppRest

NextApp ==
    \/ EditProfileName
    \/ SelectProfile
    \/ SaveProfileClicked
    \/ RevertDefaultClicked
    \/ LoadClicked
    \/ SizeSliderDragged
    \/ RingRadiusSliderDragged
    \/ ToggleChain
SpecApp == InitApp /\ [][NextApp]_vars

\* C16: in every state the application reaches, the configuration that the
\* frame's preview and the SVG export are given has 64 <= size <= 8192.
Claim_C16_SizeWithinCanvasBounds ==
    /\ MIN_CANVAS_SIZE <= config.size
    /\ config.size <= MAX_CANVAS_SIZE

\* ------------------------------------------------- C18 (under SpecBatch)

\* A data row of the file is malformed.
SomeRowBad == BadRows(InputLines) # {}

\* C18, as claimed: a batch whose file has a malformed data row leaves the
\* file system untouched: no step of it changes the output directory or any
\* other directory.
Claim_C18_ParseFailureTouchesNothing ==
    [][SomeRowBad => (disk' = disk /\ user_csvs' = user_csvs)]_vars

\* C18, amended: a batch whose file has a malformed data row never creates the
\* output directory and never writes or renders an artifact, for the valid
\* rows before the bad one either; the one change it may make to the file
\* system is the seeding of the user's CSV library, made before the file is
\* read, and only when the file is the default one.
Thm_C18_ParseFailureLeavesOutputUntouched ==
    [][SomeRowBad =>
          /\ disk' = disk
          /\ renders' = <<>>
          /\ \/ user_csvs' = user_csvs
             \/ /\ pc = "load" /\ user_csvs.default_path
                /\ user_csvs' = [user_csvs EXCEPT
                                   !.exists = TRUE,
                                   !.files = user_csvs.files \cup user_csvs.sources]
    ]_vars

\* A batch over the default file, whose third line is malformed and whose
\* second is valid, has failed: the output directory is still missing and
\* holds nothing, and the library has been seeded.
Wit_C18_ValidRowThenBadRow ==
    /\ Done /\ ~result.ok
    /\ InputLines = <<HeaderLine, PairA, BadInnerLine>>
    /\ ~disk.exists /\ DOMAIN disk.files = {}
    /\ user_csvs.default_path /\ user_csvs.exists /\ user_csvs.files # {}

====
